---- MODULE Spec2Model ----
(***************************************************************************)
(* Reconciliation and change-tracking core of truck-deal-finder            *)
(* (src/deal_finder.py): the SQLite store created by init_database, the   *)
(* merge upsert_listing, and the batch loop of run_full_scrape.            *)
(*                                                                         *)
(* Every upsert_listing call opens its own connection (get_db_connection), *)
(* reads the stored row with a SELECT that runs outside any transaction,   *)
(* and then writes inside one implicit transaction that conn.commit()      *)
(* publishes.  Spec is the program as written: one process, one call after *)
(* the other.  SpecConc takes the statements of a call one by one, so that *)
(* two operating-system processes sharing truck_deals.db can interleave.   *)
(* SpecQuery is a batch of merges followed by one query (get_price_drops   *)
(* or get_listings); SpecFilter is apply_filters on its own.               *)
(***************************************************************************)
EXTENDS Integers, Sequences, FiniteSets, TLC

(* ------------------------------ bounds -------------------------------- *)
\* Largest price a candidate carries; prices range over 0..MaxPrice.
MaxPrice == 2
\* Number of upsert_listing calls started in one behaviour (len(all_listings)).
MaxCalls == 3
\* Largest reading of datetime.now().
MaxClock == 1
\* Readings of the clock per calendar day.
TicksPerDay == 2
\* Largest reading of datetime.now() in SpecQuery.
MaxQueryClock == 2
\* Largest `days` passed to get_price_drops.
MaxDays == 1
\* Largest price and price bound, and longest list, apply_filters is given.
MaxFilterPrice == 3
MaxListings == 2
\* The min_discount_percent apply_filters is tried with.
MinDiscount == 50
\* CONFIG["max_pages"], 5 in the file as shipped.
max_pages == 2
\* The most listings with a price a result page yields.
MaxCards == 1

(* --------------------------- optional values --------------------------- *)
\* Python None / SQL NULL, and a present value v.
None == <<>>
Some(v) == <<v>>

Procs == {1, 2}

\* (source, listing_id) pairs: the same native id under two sources.
Identities == {<<"cars.com", "1">>, <<"cargurus", "1">>}
Prices == {None} \cup {Some(n) : n \in 0..MaxPrice}
\* Texts that are searched or folded to lower case are tuples of characters.
SR5 == <<"S", "R", "5">>
Trims == {None, Some(SR5)}
Makes == {Some("Toyota"), Some("Ford")}

\* The dicts the scrapers hand to upsert_listing.
Candidates ==
    [source : {i[1] : i \in Identities}, listing_id : {i[2] : i \in Identities},
     make : Makes, price : Prices, trim : Trims]

VARIABLES
    clock,          \* datetime.now()
    listings,       \* table listings: row i has id = i (AUTOINCREMENT, no deletes)
    price_alerts,   \* table price_alerts, in insertion order
    lock,           \* the process holding SQLite's write lock, 0 if none
    pc,             \* position of each process inside upsert_listing
    listing,        \* the argument of the current / last call
    existing,       \* the row fetched by the SELECT, None if no row
    now,            \* the local `now`
    txn,            \* uncommitted tables of the open transaction
    action,         \* the local `action`
    price_changed,  \* the local `price_changed`
    ret,            \* the tuple returned by the last completed call
    calls,          \* calls started so far
    procs,          \* the processes that run
    before,         \* history: the committed tables when the last call began
    run,            \* history: the candidate merged last and how often in a row
                    \* since the merge that found its identity absent
    base,           \* history: the committed tables when no call was in flight
    batch,          \* history: the calls committed since then, in commit order
    out,            \* the last query or filter call: its arguments and its result
    fetch           \* the scraper call: its locals and the requests it has made

vars == <<clock, listings, price_alerts, lock, pc, listing, existing, now, txn,
          action, price_changed, ret, calls, procs, before, run, base,
          batch, out, fetch>>

(* ------------------------------ timestamps ----------------------------- *)
\* The separator between date and time: ' ' in SQLite's CURRENT_TIMESTAMP,
\* 'T' in datetime.isoformat(), as character codes.
SepSpace == 32
SepT == 84

\* A timestamp text <<date, separator, time of day>>; the clock reading t is
\* day t \div TicksPerDay at time t % TicksPerDay.  The machine's time zone is
\* UTC, so local time and UTC read the same.
isoformat(t) == <<t \div TicksPerDay, SepT, t % TicksPerDay>>

\* DEFAULT CURRENT_TIMESTAMP: 'YYYY-MM-DD HH:MM:SS' in UTC, at the INSERT.
CURRENT_TIMESTAMP(t) == <<t \div TicksPerDay, SepSpace, t % TicksPerDay>>

\* a <= b for two TEXT values, as SQLite's BINARY collation (memcmp) has it.
TextLeq(a, b) ==
    \/ a[1] < b[1]
    \/ a[1] = b[1] /\ a[2] < b[2]
    \/ a[1] = b[1] /\ a[2] = b[2] /\ a[3] <= b[3]

(* ------------------------- pure parts of the code ---------------------- *)
\* Python truthiness of an Optional[int]: None and 0 are falsy.
Truthy(x) == x # None /\ x[1] # 0

\* The column is overwritten with whatever the candidate carries.
Coalesce_Overwrite(new, old) == new

\* SQL COALESCE(new, old).
Coalesce(new, old) == IF new # None THEN new ELSE old

\* json.loads(existing["price_history"] or "[]") and json.dumps: the column
\* holds the list itself, NULL or '' read as the empty list.
json_loads(text) == IF text = None THEN <<>> ELSE text
json_dumps(list) == list

Identity(c) == <<c.source, c.listing_id>>

\* The set of ids of the rows of ls with the identity of c.
RowsOf(ls, c) ==
    {i \in 1..Len(ls) : ls[i].source = c.source /\ ls[i].listing_id = c.listing_id}

\* SELECT id, price, price_history FROM listings WHERE source = ? AND listing_id = ?
\* followed by fetchone().
SelectExisting(ls, c) ==
    IF RowsOf(ls, c) = {} THEN None
    ELSE LET i == CHOOSE j \in RowsOf(ls, c) : \A k \in RowsOf(ls, c) : j <= k
         IN  Some([id |-> i, price |-> ls[i].price,
                   price_history |-> ls[i].price_history])

\* The comparison of the two prices is left out.
PriceChangeDetected_NoCompare(old_price, new_price) ==
    Truthy(old_price) /\ Truthy(new_price)

\* if old_price and new_price and old_price != new_price
PriceChangeDetected(old_price, new_price) ==
    Truthy(old_price) /\ Truthy(new_price) /\ old_price # new_price

\* The row is written with the two prices in the wrong order.
AlertRow_Swapped(ex, c) ==
    [listing_id |-> ex.id, old_price |-> c.price, new_price |-> ex.price]

\* INSERT INTO price_alerts (listing_id, old_price, new_price)
AlertRow(ex, c) ==
    [listing_id |-> ex.id, old_price |-> ex.price, new_price |-> c.price]

\* The columns of price_alerts the INSERT leaves to their defaults.
AlertDefaults(row, t) ==
    [listing_id |-> row.listing_id, old_price |-> row.old_price,
     new_price |-> row.new_price, change_date |-> CURRENT_TIMESTAMP(t),
     notified |-> 0]

\* The entry is put in front of the history instead of at its end.
AppendHistory_Prepend(ex, t) ==
    <<[price |-> ex.price, date |-> isoformat(t)]>> \o json_loads(ex.price_history)

\* price_history.append({"price": old_price, "date": now}), with
\* now = datetime.now().isoformat() and t the reading of datetime.now().
AppendHistory(ex, t) ==
    Append(json_loads(ex.price_history), [price |-> ex.price, date |-> isoformat(t)])

\* The UPDATE of the price-changed branch writes first_seen as well.
UpdatePriceChanged_ResetFirstSeen(row, ex, c, t) ==
    [row EXCEPT !.price = c.price,
                !.first_seen = isoformat(t),
                !.last_seen = isoformat(t),
                !.price_history = json_dumps(AppendHistory(ex, t)),
                !.trim = Coalesce(c.trim, row.trim)]

\* UPDATE listings SET price = ?, last_seen = ?, price_history = ?, trim = COALESCE(?, trim) ...
UpdatePriceChanged(row, ex, c, t) ==
    [row EXCEPT !.price = c.price,
                !.last_seen = isoformat(t),
                !.price_history = json_dumps(AppendHistory(ex, t)),
                !.trim = Coalesce(c.trim, row.trim)]

\* The UPDATE of the else branch writes first_seen as well.
UpdateUnchanged_ResetFirstSeen(row, c, t) ==
    [row EXCEPT !.first_seen = isoformat(t),
                !.last_seen = isoformat(t),
                !.trim = Coalesce(c.trim, row.trim)]

\* UPDATE listings SET last_seen = ?, trim = COALESCE(?, trim) ...
UpdateUnchanged(row, c, t) ==
    [row EXCEPT !.last_seen = isoformat(t),
                !.trim = Coalesce(c.trim, row.trim)]

\* INSERT INTO listings (...) VALUES (...)
InsertRow(c, t) ==
    [source |-> c.source, listing_id |-> c.listing_id, make |-> c.make,
     price |-> c.price, trim |-> c.trim, first_seen |-> isoformat(t),
     last_seen |-> isoformat(t), price_history |-> json_dumps(<<>>)]

\* The table is created without UNIQUE(source, listing_id).
UniqueViolated_NoConstraint(ls, c) == FALSE

\* UNIQUE(source, listing_id): the INSERT of c raises IntegrityError.
UniqueViolated(ls, c) == RowsOf(ls, c) # {}

\* make TEXT NOT NULL: the INSERT of c raises IntegrityError.  The empty
\* string is a value, not NULL.
NotNullViolated(c) == c.make = None

\* INSERT OR REPLACE keyed by the listing: the new row takes the place of the
\* listing's earlier rows.
ExecInsertAlert_Replace(tx, ex, c, t) ==
    [tx EXCEPT !.price_alerts =
        Append(SelectSeq(@, LAMBDA a : a.listing_id # ex.id),
               AlertDefaults(AlertRow(ex, c), t))]

\* The else branch of the price check writes nothing.
ExecUpdateUnchanged_NoWrite(tx, ex, c, t) == tx

\* The UPDATE of the price-changed branch without its WHERE id = ?: every
\* row is written.
ExecUpdatePriceChanged_AllRows(tx, ex, c, t) ==
    [tx EXCEPT !.listings =
        [i \in DOMAIN tx.listings |-> UpdatePriceChanged(tx.listings[i], ex, c, t)]]

\* The statements of upsert_listing as functions of the tables tx they run on
\* (the committed tables, then the tables of the open transaction).
ExecInsertAlert(tx, ex, c, t) ==
    [tx EXCEPT !.price_alerts = Append(@, AlertDefaults(AlertRow(ex, c), t))]

ExecUpdatePriceChanged(tx, ex, c, t) ==
    [tx EXCEPT !.listings[ex.id] = UpdatePriceChanged(@, ex, c, t)]

ExecUpdateUnchanged(tx, ex, c, t) ==
    [tx EXCEPT !.listings[ex.id] = UpdateUnchanged(@, c, t)]

ExecInsertListing(tx, c, t) ==
    [tx EXCEPT !.listings = Append(@, InsertRow(c, t))]

\* The else branch of the price check reports "updated" like the other.
UpsertListing_UnchangedAsUpdated(db, c, t) ==
    LET ex == SelectExisting(db.listings, c) IN
    IF ex # None
    THEN IF PriceChangeDetected(ex[1].price, c.price)
         THEN [db |-> ExecUpdatePriceChanged(ExecInsertAlert(db, ex[1], c, t), ex[1], c, t),
               ret |-> <<"updated", TRUE>>]
         ELSE [db |-> ExecUpdateUnchanged(db, ex[1], c, t),
               ret |-> <<"updated", FALSE>>]
    ELSE IF UniqueViolated(db.listings, c) \/ NotNullViolated(c)
         THEN [db |-> db, ret |-> <<"IntegrityError">>]
         ELSE [db |-> ExecInsertListing(db, c, t), ret |-> <<"inserted", FALSE>>]

\* One whole call of upsert_listing on the tables db with now = t and nothing
\* running beside it: the tables it commits and the tuple it returns, or the
\* exception it raises (nothing is committed then).
UpsertListing(db, c, t) ==
    LET ex == SelectExisting(db.listings, c) IN
    IF ex # None
    THEN IF PriceChangeDetected(ex[1].price, c.price)
         THEN [db |-> ExecUpdatePriceChanged(ExecInsertAlert(db, ex[1], c, t), ex[1], c, t),
               ret |-> <<"updated", TRUE>>]
         ELSE [db |-> ExecUpdateUnchanged(db, ex[1], c, t),
               ret |-> <<"unchanged", FALSE>>]
    ELSE IF UniqueViolated(db.listings, c) \/ NotNullViolated(c)
         THEN [db |-> db, ret |-> <<"IntegrityError">>]
         ELSE [db |-> ExecInsertListing(db, c, t), ret |-> <<"inserted", FALSE>>]

Tables(ls, pa) == [listings |-> ls, price_alerts |-> pa]
Committed == Tables(listings, price_alerts)
Empty == Tables(<<>>, <<>>)
NoCall == [source |-> "", listing_id |-> "", make |-> None, price |-> None,
           trim |-> None]
NoOut == [call |-> ""]
NoFetch == [pc |-> "idle", site |-> "", page |-> 0, attempt |-> 0,
            all_listings |-> 0, log |-> <<>>]

\* The ids of the rows of ls with the identity of c, read off the table.
Stored(ls, c) == {i \in 1..Len(ls) : <<ls[i].source, ls[i].listing_id>> = Identity(c)}

\* The length of the run of equal candidates once c is merged into the
\* committed tables, whether the call before merged the same candidate, and
\* whether the call before inserted the identity of c.
NextRun(c) ==
    [cand |-> c,
     len |-> IF Stored(listings, c) = {} THEN 1
             ELSE IF run.len > 0 /\ run.cand = c THEN run.len + 1
             ELSE 0,
     same |-> run.cand = c,
     fresh |-> run.len = 1 /\ Identity(run.cand) = Identity(c)]

\* The make of the vehicle a listing advertises.
MakeOf(c) == IF c.source = "cars.com" THEN Some("Toyota") ELSE Some("Ford")

\* The candidates a batch may contain: every sighting of the listings on offer
\* when one process runs, those that carry a price and no trim when two do.
\* The listings on offer: the one at cars.com is seen with and without its
\* trim, the one at cargurus without.
Listed ==
    {c \in Candidates : c.make = MakeOf(c) /\ (c.trim = None \/ c.source = "cars.com")}
Plain == {c \in Listed : c.trim = None /\ c.price # None}
Inputs == IF procs = {1} THEN Listed ELSE Plain

(* ------------------------------- Init ---------------------------------- *)
InitStore ==
    /\ listings = <<>>
    /\ price_alerts = <<>>
    /\ lock = 0
    /\ pc = [p \in Procs |-> "idle"]
    /\ listing = [p \in Procs |-> NoCall]
    /\ existing = [p \in Procs |-> None]
    /\ now = [p \in Procs |-> 0]
    /\ txn = [p \in Procs |-> Empty]
    /\ action = [p \in Procs |-> ""]
    /\ price_changed = [p \in Procs |-> FALSE]
    /\ ret = [p \in Procs |-> None]
    /\ calls = 0
    /\ before = Empty
    /\ run = [cand |-> NoCall, len |-> 0, same |-> FALSE, fresh |-> FALSE]
    /\ base = Empty
    /\ batch = <<>>
    /\ out = NoOut
    /\ fetch = NoFetch

\* One process runs run_full_scrape: the program as written.
Init ==
    /\ InitStore
    /\ clock = 0
    /\ procs = {1}

\* Two processes run the script on the same truck_deals.db, within one reading
\* of the clock and with candidates that carry a price and no trim.
InitConc ==
    /\ InitStore
    /\ clock = MaxClock
    /\ procs = {1, 2}

(* ----------------------- the program, one process ---------------------- *)
\* One iteration of `for listing in all_listings` in run_full_scrape: the
\* whole call upsert_listing(listing), with datetime.now() = t.
Upsert(p, c, t) ==
    /\ pc[p] = "idle"
    /\ calls < MaxCalls
    /\ calls' = calls + 1
    /\ clock' = t
    /\ LET r == UpsertListing(Committed, c, t) IN
       /\ listings' = r.db.listings
       /\ price_alerts' = r.db.price_alerts
       /\ ret' = [ret EXCEPT ![p] = Some(r.ret)]
       /\ pc' = [pc EXCEPT ![p] = IF Len(r.ret) = 1 THEN r.ret[1] ELSE "idle"]
    /\ listing' = [listing EXCEPT ![p] = c]
    /\ now' = [now EXCEPT ![p] = t]
    /\ before' = Committed
    /\ run' = NextRun(c)
    /\ UNCHANGED <<out, fetch>>
    /\ UNCHANGED <<lock, existing, txn, action, price_changed, procs,
                   base, batch>>

Next ==
    \E p \in procs : \E c \in Inputs : \E t \in clock..MaxClock : Upsert(p, c, t)

Spec == Init /\ [][Next]_vars

(* ------------------ the statements of a call, one by one --------------- *)
InFlight(p) == pc[p] \in {"selected", "alerted", "written"}

\* upsert_listing up to `price_changed = False`: connect, SELECT, fetchone,
\* now = datetime.now() = t.  The SELECT runs outside any transaction.
Select(p, c, t) ==
    /\ pc[p] = "idle"
    /\ calls < MaxCalls
    /\ calls' = calls + 1
    /\ clock' = t
    /\ listing' = [listing EXCEPT ![p] = c]
    /\ existing' = [existing EXCEPT ![p] = SelectExisting(listings, c)]
    /\ now' = [now EXCEPT ![p] = t]
    /\ price_changed' = [price_changed EXCEPT ![p] = FALSE]
    /\ action' = [action EXCEPT ![p] = ""]
    /\ pc' = [pc EXCEPT ![p] = "selected"]
    /\ IF \A q \in procs : ~InFlight(q)
       THEN base' = Committed /\ batch' = <<>>
       ELSE UNCHANGED <<base, batch>>
    /\ UNCHANGED <<out, fetch>>
    /\ UNCHANGED <<listings, price_alerts, lock, txn, ret, procs, before, run>>

\* The connection runs in autocommit mode: the INSERT INTO price_alerts is
\* committed on its own, before the UPDATE of the listing.
InsertAlert_Autocommit(p) ==
    /\ pc[p] = "selected"
    /\ existing[p] # None
    /\ PriceChangeDetected(existing[p][1].price, listing[p].price)
    /\ lock = 0
    /\ lock' = p
    /\ price_changed' = [price_changed EXCEPT ![p] = TRUE]
    /\ price_alerts' = Append(price_alerts,
                              AlertDefaults(AlertRow(existing[p][1], listing[p]), clock))
    /\ txn' = [txn EXCEPT ![p] = Tables(listings, price_alerts')]
    /\ pc' = [pc EXCEPT ![p] = "alerted"]
    /\ UNCHANGED <<out, fetch>>
    /\ UNCHANGED <<clock, listings, listing, existing, now, action,
                   ret, calls, procs, before, run, base, batch>>

\* The price-changed branch up to the INSERT INTO price_alerts: the first
\* write of the call begins the transaction and takes the write lock.
InsertAlert(p) ==
    /\ pc[p] = "selected"
    /\ existing[p] # None
    /\ PriceChangeDetected(existing[p][1].price, listing[p].price)
    /\ lock = 0
    /\ lock' = p
    /\ price_changed' = [price_changed EXCEPT ![p] = TRUE]
    /\ txn' = [txn EXCEPT ![p] = ExecInsertAlert(Committed, existing[p][1], listing[p], clock)]
    /\ pc' = [pc EXCEPT ![p] = "alerted"]
    /\ UNCHANGED <<out, fetch>>
    /\ UNCHANGED <<clock, listings, price_alerts, listing, existing, now, action,
                   ret, calls, procs, before, run, base, batch>>

\* The UPDATE of the price-changed branch, and action = "updated".
UpdateListingPriceChanged(p) ==
    /\ pc[p] = "alerted"
    /\ txn' = [txn EXCEPT ![p] =
                 ExecUpdatePriceChanged(@, existing[p][1], listing[p], now[p])]
    /\ action' = [action EXCEPT ![p] = "updated"]
    /\ pc' = [pc EXCEPT ![p] = "written"]
    /\ UNCHANGED <<out, fetch>>
    /\ UNCHANGED <<clock, listings, price_alerts, lock, listing, existing, now,
                   price_changed, ret, calls, procs, before, run, base,
                   batch>>

\* The else branch of the price check: the UPDATE that leaves price alone,
\* and action = "unchanged".
UpdateListingUnchanged(p) ==
    /\ pc[p] = "selected"
    /\ existing[p] # None
    /\ ~PriceChangeDetected(existing[p][1].price, listing[p].price)
    /\ lock = 0
    /\ lock' = p
    /\ txn' = [txn EXCEPT ![p] =
                 ExecUpdateUnchanged(Committed, existing[p][1], listing[p], now[p])]
    /\ action' = [action EXCEPT ![p] = "unchanged"]
    /\ pc' = [pc EXCEPT ![p] = "written"]
    /\ UNCHANGED <<out, fetch>>
    /\ UNCHANGED <<clock, listings, price_alerts, listing, existing, now,
                   price_changed, ret, calls, procs, before, run, base,
                   batch>>

\* The branch for no existing row: INSERT INTO listings, and action = "inserted".
InsertListing(p) ==
    /\ pc[p] = "selected"
    /\ existing[p] = None
    /\ lock = 0
    /\ ~UniqueViolated(listings, listing[p])
    /\ ~NotNullViolated(listing[p])
    /\ lock' = p
    /\ txn' = [txn EXCEPT ![p] = ExecInsertListing(Committed, listing[p], now[p])]
    /\ action' = [action EXCEPT ![p] = "inserted"]
    /\ pc' = [pc EXCEPT ![p] = "written"]
    /\ UNCHANGED <<out, fetch>>
    /\ UNCHANGED <<clock, listings, price_alerts, listing, existing, now,
                   price_changed, ret, calls, procs, before, run, base,
                   batch>>

\* The INSERT INTO listings meets a row another process committed after this
\* call's SELECT: sqlite3.IntegrityError (UNIQUE constraint failed).
InsertConflict(p) ==
    /\ pc[p] = "selected"
    /\ existing[p] = None
    /\ lock = 0
    /\ UniqueViolated(listings, listing[p]) \/ NotNullViolated(listing[p])
    /\ pc' = [pc EXCEPT ![p] = "IntegrityError"]
    /\ UNCHANGED <<out, fetch>>
    /\ UNCHANGED <<clock, listings, price_alerts, lock, listing, existing, now, txn,
                   action, price_changed, ret, calls, procs, before, run,
                   base, batch>>

\* The first write finds the write lock held for longer than the connection's
\* timeout: sqlite3.OperationalError (database is locked).
DatabaseLocked(p) ==
    /\ pc[p] = "selected"
    /\ lock \notin {0, p}
    /\ pc' = [pc EXCEPT ![p] = "OperationalError"]
    /\ UNCHANGED <<out, fetch>>
    /\ UNCHANGED <<clock, listings, price_alerts, lock, listing, existing, now, txn,
                   action, price_changed, ret, calls, procs, before, run,
                   base, batch>>

\* conn.commit(), conn.close() and the return.
Commit(p) ==
    /\ pc[p] = "written"
    /\ listings' = txn[p].listings
    /\ price_alerts' = txn[p].price_alerts
    /\ lock' = 0
    /\ txn' = [txn EXCEPT ![p] = Empty]
    /\ ret' = [ret EXCEPT ![p] = Some(<<action[p], price_changed[p]>>)]
    /\ batch' = Append(batch, [c |-> listing[p], t |-> now[p]])
    /\ pc' = [pc EXCEPT ![p] = "idle"]
    /\ UNCHANGED <<out, fetch>>
    /\ UNCHANGED <<clock, listing, existing, now, action, price_changed, calls,
                   procs, before, run, base>>

NextConc ==
    \/ \E p \in procs : \E c \in Inputs : \E t \in clock..MaxClock : Select(p, c, t)
    \/ \E p \in procs : InsertAlert(p)
    \/ \E p \in procs : UpdateListingPriceChanged(p)
    \/ \E p \in procs : UpdateListingUnchanged(p)
    \/ \E p \in procs : InsertListing(p)
    \/ \E p \in procs : InsertConflict(p)
    \/ \E p \in procs : DatabaseLocked(p)
    \/ \E p \in procs : Commit(p)

SpecConc == InitConc /\ [][NextConc]_vars

(* ------------------------- the store fails ----------------------------- *)
\* The statements run so far stay in the database when a later one fails.
StoreFails_NoRollback(p) ==
    /\ InFlight(p)
    /\ listings' = IF pc[p] = "selected" THEN listings ELSE txn[p].listings
    /\ price_alerts' = IF pc[p] = "selected" THEN price_alerts ELSE txn[p].price_alerts
    /\ pc' = [pc EXCEPT ![p] = "OperationalError"]
    /\ txn' = [txn EXCEPT ![p] = Empty]
    /\ lock' = IF lock = p THEN 0 ELSE lock
    /\ before' = base
    /\ run' = [cand |-> listing[p], len |-> 0, same |-> FALSE, fresh |-> FALSE]
    /\ UNCHANGED <<out, fetch>>
    /\ UNCHANGED <<clock, listing, existing, now, action, price_changed, ret,
                   calls, procs, base, batch>>

\* cursor.execute or conn.commit raises sqlite3.OperationalError after the
\* SELECT: nothing in upsert_listing catches it, so it leaves the function
\* before conn.commit() has succeeded; the connection is dropped and SQLite
\* rolls the open transaction back.  History: before is the store the failed
\* call began with, run.cand its candidate (run.len = 0).
StoreFails(p) ==
    /\ InFlight(p)
    /\ pc' = [pc EXCEPT ![p] = "OperationalError"]
    /\ txn' = [txn EXCEPT ![p] = Empty]
    /\ lock' = IF lock = p THEN 0 ELSE lock
    /\ before' = base
    /\ run' = [cand |-> listing[p], len |-> 0, same |-> FALSE, fresh |-> FALSE]
    /\ UNCHANGED <<out, fetch>>
    /\ UNCHANGED <<clock, listings, price_alerts, listing, existing, now, action,
                   price_changed, ret, calls, procs, base, batch>>

\* The script is run again after the exception ended it.
Restart(p) ==
    /\ pc[p] = "OperationalError"
    /\ pc' = [pc EXCEPT ![p] = "idle"]
    /\ UNCHANGED <<out, fetch>>
    /\ UNCHANGED <<clock, listings, price_alerts, lock, listing, existing, now, txn,
                   action, price_changed, ret, calls, procs, before, run,
                   base, batch>>

NextFail ==
    \/ \E c \in Plain : \E t \in clock..MaxClock : Select(1, c, t)
    \/ InsertAlert(1)
    \/ UpdateListingPriceChanged(1)
    \/ UpdateListingUnchanged(1)
    \/ InsertListing(1)
    \/ Commit(1)
    \/ StoreFails(1)
    \/ Restart(1)

SpecFail == Init /\ [][NextFail]_vars

(* ------------------- candidates as they come, unvalidated -------------- *)
\* upsert_listing reads listing["source"], listing["listing_id"],
\* listing["make"] as they are: nothing checks a candidate before the SELECT.
\* The dicts it may be handed for cars.com: listing_id may be the empty
\* string, make may be None or another make than the one stored.
Raw ==
    [source : {"cars.com"}, listing_id : {"1", ""}, make : Makes \cup {None},
     price : {Some(1), Some(MaxPrice)}, trim : {None}]

NextRaw ==
    \E c \in Raw : \E t \in clock..MaxClock : Upsert(1, c, t)

SpecRaw == Init /\ [][NextRaw]_vars

(* ------------------------------ filters -------------------------------- *)
\* FILTERS as the file ships it: every filter off.  The mileage and year
\* bounds (written as the price bounds are) and the dealer and keyword lists
\* (written as the trim lists are) stay at these defaults and are not carried.
FILTERS ==
    [price_min |-> None, price_max |-> None, trims_include |-> <<>>,
     trims_exclude |-> <<>>, min_discount_percent |-> None,
     only_price_drops |-> FALSE]

\* listing.get(key): None when the dict has no such key.
Get(l, key) == IF key \in DOMAIN l THEN l[key] ELSE None

\* str.lower(), character by character.
LowerChar(ch) ==
    CASE ch = "T" -> "t" [] ch = "R" -> "r" [] ch = "D" -> "d"
      [] ch = "P" -> "p" [] ch = "S" -> "s" [] ch = "L" -> "l"
      [] OTHER -> ch
lower(text) == [i \in DOMAIN text |-> LowerChar(text[i])]

\* Python `part in text` for two strings.
Contains(text, part) ==
    \E i \in 0..(Len(text) - Len(part)) : SubSeq(text, i + 1, i + Len(part)) = part

\* The second bound is tested only when the first lets the listing by and
\* is not set (`elif`).
PricePass_Elif(l, filters) ==
    Truthy(Get(l, "price")) =>
        IF Truthy(filters.price_min)
        THEN ~(Get(l, "price")[1] < filters.price_min[1])
        ELSE ~(Truthy(filters.price_max) /\ Get(l, "price")[1] > filters.price_max[1])

\* The price filters of apply_filters:
\*   if price:
\*       if filters.get("price_min") and price < filters["price_min"]: continue
\*       if filters.get("price_max") and price > filters["price_max"]: continue
PricePass(l, filters) ==
    Truthy(Get(l, "price")) =>
        /\ ~(Truthy(filters.price_min) /\ Get(l, "price")[1] < filters.price_min[1])
        /\ ~(Truthy(filters.price_max) /\ Get(l, "price")[1] > filters.price_max[1])

\* trim = (listing.get("trim") or "").lower()
TrimOf(l) == IF Get(l, "trim") = None THEN <<>> ELSE lower(Get(l, "trim")[1])

\* The entries are compared as written, without .lower().
TrimIncludePass_CaseSensitive(l, filters) ==
    filters.trims_include # <<>> =>
        \E k \in DOMAIN filters.trims_include :
            Contains(TrimOf(l), filters.trims_include[k])

\* if filters.get("trims_include"):
\*     if not any(t.lower() in trim for t in filters["trims_include"]): continue
TrimIncludePass(l, filters) ==
    filters.trims_include # <<>> =>
        \E k \in DOMAIN filters.trims_include :
            Contains(TrimOf(l), lower(filters.trims_include[k]))

\* if filters.get("trims_exclude"):
\*     if any(t.lower() in trim for t in filters["trims_exclude"]): continue
TrimExcludePass(l, filters) ==
    filters.trims_exclude # <<>> =>
        ~\E k \in DOMAIN filters.trims_exclude :
            Contains(TrimOf(l), lower(filters.trims_exclude[k]))

\* if filters.get("min_discount_percent"):
\*     if msrp and price:
\*         if ((msrp - price) / msrp) * 100 < min_discount_percent: continue
\*     elif not msrp: pass
\* The quotient is compared exactly, as (msrp - price) * 100 < percent * msrp.
DiscountPass(l, filters) ==
    (Truthy(filters.min_discount_percent)
        /\ Truthy(Get(l, "msrp")) /\ Truthy(Get(l, "price"))) =>
        ~((Get(l, "msrp")[1] - Get(l, "price")[1]) * 100
             < filters.min_discount_percent[1] * Get(l, "msrp")[1])

\* if filters.get("only_price_drops"):
\*     price_history = listing.get("price_history") [json.loads if a str]
\*     if not price_history: continue
PriceDropsPass(l, filters) ==
    filters.only_price_drops => json_loads(Get(l, "price_history")) # <<>>

\* The listing reaches filtered.append(listing).
Keep(l, filters) ==
    /\ PricePass(l, filters)
    /\ TrimIncludePass(l, filters)
    /\ TrimExcludePass(l, filters)
    /\ DiscountPass(l, filters)
    /\ PriceDropsPass(l, filters)

\* apply_filters(listings, filters): the listings no filter drops, in order.
apply_filters(ls, filters) == SelectSeq(ls, LAMBDA l : Keep(l, filters))

\* The arguments apply_filters is tried on: lists of dicts that hold a price
\* only, and lists of one dict with price, trim, msrp and price_history; every
\* combination of a few values per option, the list entries non-empty.
TRD == <<"T", "R", "D">>
TRD_Pro == <<"T", "R", "D", " ", "P", "r", "o">>
Limited == <<"L", "i", "m", "i", "t", "e", "d">>
FilterPrices == {None} \cup {Some(n) : n \in 0..MaxFilterPrice}
FilterDicts ==
    [price : FilterPrices,
     trim : {None, Some(TRD_Pro), Some(lower(Limited))},
     msrp : {None, Some(MaxFilterPrice + 1)},
     price_history : {<<>>, <<[price |-> Some(1), date |-> isoformat(0)]>>}]
ListPrices == {None, Some(0), Some(MaxFilterPrice - 1), Some(MaxFilterPrice)}
FilterLists ==
    UNION {[1..n -> [price : ListPrices]] : n \in 0..MaxListings}
        \cup {<<l>> : l \in FilterDicts}
FilterConfigs ==
    [price_min : {None, Some(MaxFilterPrice - 1)},
     price_max : {None, Some(MaxFilterPrice - 1)},
     trims_include : {<<>>, <<Limited>>, <<Limited, lower(TRD)>>},
     trims_exclude : {<<>>, <<TRD>>},
     min_discount_percent : {None, Some(MinDiscount)},
     only_price_drops : BOOLEAN]

\* One call apply_filters(ls, f).
ApplyFilters(ls, f) ==
    /\ out = NoOut
    /\ out' = [call |-> "apply_filters", listings |-> ls, filters |-> f,
               rows |-> apply_filters(ls, f)]
    /\ UNCHANGED fetch
    /\ UNCHANGED <<clock, listings, price_alerts, lock, pc, listing, existing, now,
                   txn, action, price_changed, ret, calls, procs, before, run,
                   base, batch>>

NextFilter ==
    /\ out = NoOut
    /\ \E ls \in FilterLists : \E f \in FilterConfigs : ApplyFilters(ls, f)

SpecFilter == Init /\ [][NextFilter]_vars

(* ------------------------------ queries -------------------------------- *)
\* The sequences that list every element of S once: the orders in which a
\* cursor may hand out the rows S.
Orderings(S) ==
    {f \in [1..Cardinality(S) -> S] :
        \A i, j \in 1..Cardinality(S) : f[i] = f[j] => i = j}

\* cutoff = (datetime.now() - timedelta(days=days)).isoformat()
Cutoff(t, days) == isoformat(t - days * TicksPerDay)

\* The join is written ON pa.id = l.id: the row takes the fields of the
\* listing whose id is the alert's own id, where there is one.
JoinRow_ByAlertId(db, k) ==
    LET a == db.price_alerts[k]
        l == db.listings[IF k <= Len(db.listings) THEN k ELSE a.listing_id]
    IN  [id |-> k, listing_id |-> a.listing_id, old_price |-> a.old_price,
         new_price |-> a.new_price, change_date |-> a.change_date,
         notified |-> a.notified, make |-> l.make, trim |-> l.trim]

\* One row of SELECT pa.*, l.make, l.trim ... FROM price_alerts pa JOIN
\* listings l ON pa.listing_id = l.id, for the price_alerts row with id k.
JoinRow(db, k) ==
    LET a == db.price_alerts[k]
        l == db.listings[a.listing_id]
    IN  [id |-> k, listing_id |-> a.listing_id, old_price |-> a.old_price,
         new_price |-> a.new_price, change_date |-> a.change_date,
         notified |-> a.notified, make |-> l.make, trim |-> l.trim]

\* The ids of the price_alerts rows the query selects:
\* JOIN listings l ON pa.listing_id = l.id WHERE pa.change_date >= cutoff.
DropIds(db, cutoff) ==
    {k \in 1..Len(db.price_alerts) :
        /\ db.price_alerts[k].listing_id \in 1..Len(db.listings)
        /\ TextLeq(cutoff, db.price_alerts[k].change_date)}

\* get_price_drops(days) at datetime.now() = t: the lists it may return,
\* ORDER BY pa.change_date DESC.
get_price_drops(db, days, t) ==
    {[i \in DOMAIN f |-> JoinRow(db, f[i])] :
        f \in {g \in Orderings(DropIds(db, Cutoff(t, days))) :
                  \A i, j \in DOMAIN g :
                      i < j => TextLeq(db.price_alerts[g[j]].change_date,
                                       db.price_alerts[g[i]].change_date)}}

\* SQL LOWER on the makes in use.
Lower(str) ==
    CASE str = "Toyota" -> "toyota"
      [] str = "Ford" -> "ford"
      [] OTHER -> str

\* The make get_listings is asked for; with None, or '', no condition is added.
MakeArgs == {None, Some("toyota"), Some("ford")}

\* dict(row) of SELECT * FROM listings for the row with id i.
ListingDict(ls, i) ==
    [id |-> i, source |-> ls[i].source, listing_id |-> ls[i].listing_id,
     make |-> ls[i].make, price |-> ls[i].price, trim |-> ls[i].trim,
     first_seen |-> ls[i].first_seen, last_seen |-> ls[i].last_seen,
     price_history |-> ls[i].price_history]

\* WHERE 1=1 [AND LOWER(make) = LOWER(?)]: make stands for make and model.
ListingIds(ls, make) ==
    {i \in 1..Len(ls) :
        (make # None /\ make[1] # "") => Lower(ls[i].make[1]) = Lower(make[1])}

\* ORDER BY price ASC as SQLite orders it: NULL sorts before every value.
PriceAsc(p, q) == p = None \/ (q # None /\ p[1] <= q[1])

\* get_listings(make), use_filters left True: the lists it may return.
get_listings(ls, make) ==
    {apply_filters([i \in DOMAIN f |-> ListingDict(ls, f[i])], FILTERS) :
        f \in {g \in Orderings(ListingIds(ls, make)) :
                  \A i, j \in DOMAIN g :
                      i < j => PriceAsc(ls[g[i]].price, ls[g[j]].price)}}

\* The sightings merged before a query is made: without a price, or at one
\* of two prices.
QueryListed == {c \in Listed : c.price \in {None, Some(1), Some(2)}}

\* One call get_price_drops(days) with datetime.now() = t.
GetPriceDrops(days, t) ==
    /\ out = NoOut
    /\ clock' = t
    /\ \E rows \in get_price_drops(Committed, days, t) :
          out' = [call |-> "get_price_drops", days |-> days, now |-> t,
                  rows |-> rows]
    /\ UNCHANGED fetch
    /\ UNCHANGED <<listings, price_alerts, lock, pc, listing, existing, now,
                   txn, action, price_changed, ret, calls, procs, before, run,
                   base, batch>>

\* One call get_listings(make).
GetListings(make) ==
    /\ out = NoOut
    /\ \E rows \in get_listings(listings, make) :
          out' = [call |-> "get_listings", make |-> make, rows |-> rows]
    /\ UNCHANGED fetch
    /\ UNCHANGED <<clock, listings, price_alerts, lock, pc, listing, existing,
                   now, txn, action, price_changed, ret, calls, procs, before,
                   run, base, batch>>

\* A batch of merges, then one query of the store the batch left.
NextQuery ==
    \/ /\ out = NoOut
       /\ \E c \in QueryListed : \E t \in clock..MaxQueryClock : Upsert(1, c, t)
    \/ /\ out = NoOut
       /\ \E days \in 0..MaxDays : \E t \in clock..MaxQueryClock : GetPriceDrops(days, t)
    \/ /\ out = NoOut
       /\ \E make \in MakeArgs : GetListings(make)

SpecQuery == Init /\ [][NextQuery]_vars

(* ------------------------------ scrapers ------------------------------- *)
\* scrape_cars_com(vehicle) and scrape_autotrader(vehicle): the page loop and
\* the attempt loop inside it.  fetch.all_listings is len(all_listings),
\* fetch.log the calls session.get(url, timeout=60) made so far with what
\* came of each.
max_retries == 3
Sites == {"cars.com", "autotrader"}

\* What an attempt can meet: the request times out, fails otherwise
\* (connection error, raise_for_status), the page is Autotrader's
\* bot-protection page, handling the page raises, no selector finds a card, or
\* cards are found of which n parse to a listing with a price; next says
\* whether Cars.com shows a next-page link.
Responses(site) ==
    {[kind |-> k, n |-> 0, next |-> FALSE] :
        k \in {"Timeout", "RequestException", "Exception", "no cards"}
               \cup (IF site = "autotrader" THEN {"blocked"} ELSE {})}
    \cup {[kind |-> "cards", n |-> n, next |-> x] :
            n \in 0..MaxCards, x \in (IF site = "cars.com" THEN BOOLEAN ELSE {FALSE})}

\* The handler of RequestException retries like the handler of Timeout.
Handle_RetryOnError(site, attempt, r) ==
    CASE r.kind \in {"Timeout", "RequestException"} ->
            IF attempt < max_retries - 1 THEN "continue" ELSE "break"
      [] r.kind = "blocked" -> "return"
      [] OTHER -> "break"

\* How the body of the attempt loop is left: by `continue`, by `break` (of the
\* attempt loop, the innermost one) or by `return all_listings`.  With cards:
\* `if not next_btn or len(page_listings) == 0: break`, and after
\* random_delay() `break` again.
Handle(site, attempt, r) ==
    CASE r.kind = "Timeout" ->
            IF attempt < max_retries - 1 THEN "continue" ELSE "break"
      [] r.kind = "blocked" -> "return"
      [] r.kind = "cards" ->
            IF (site = "cars.com" /\ ~r.next) \/ r.n = 0 THEN "break" ELSE "break"
      [] OTHER -> "break"

\* The call begins: session = get_session(), all_listings = [].
Scrape(site) ==
    /\ fetch = NoFetch
    /\ fetch' = [NoFetch EXCEPT !.pc = "page", !.site = site, !.page = 1]
    /\ UNCHANGED <<clock, listings, price_alerts, lock, pc, listing, existing, now,
                   txn, action, price_changed, ret, calls, procs, before, run,
                   base, batch, out>>

\* The head of `for page in range(1, CONFIG["max_pages"] + 1)`: the next page
\* begins with attempt 0, or the loop is done and all_listings is returned.
PageLoop ==
    /\ fetch.pc = "page"
    /\ fetch' = IF fetch.page <= max_pages
                THEN [fetch EXCEPT !.pc = "try", !.attempt = 0]
                ELSE [fetch EXCEPT !.pc = "returned"]
    /\ UNCHANGED <<clock, listings, price_alerts, lock, pc, listing, existing, now,
                   txn, action, price_changed, ret, calls, procs, before, run,
                   base, batch, out>>

\* One pass through the body of `for attempt in range(max_retries)`.  After
\* `continue` the loop goes on, or is exhausted and its else clause breaks the
\* page loop; after `break` the else clause is skipped and the page loop goes
\* on with the next page.
Try(r) ==
    /\ fetch.pc = "try"
    /\ LET how == Handle(fetch.site, fetch.attempt, r)
           got == [fetch EXCEPT
                     !.log = Append(@, [page |-> fetch.page, attempt |-> fetch.attempt,
                                        response |-> r]),
                     !.all_listings = @ + (IF r.kind = "cards" THEN r.n ELSE 0)]
       IN  fetch' = CASE how = "continue" ->
                            IF fetch.attempt + 1 < max_retries
                            THEN [got EXCEPT !.attempt = @ + 1]
                            ELSE [got EXCEPT !.pc = "returned"]
                      [] how = "break" -> [got EXCEPT !.page = @ + 1, !.pc = "page"]
                      [] how = "return" -> [got EXCEPT !.pc = "returned"]
    /\ UNCHANGED <<clock, listings, price_alerts, lock, pc, listing, existing, now,
                   txn, action, price_changed, ret, calls, procs, before, run,
                   base, batch, out>>

NextFetch ==
    \/ \E site \in Sites : Scrape(site)
    \/ PageLoop
    \/ \E r \in Responses(fetch.site) : Try(r)

\* The loops are straight-line Python: a step that can be taken is taken.
SpecFetch == Init /\ [][NextFetch]_vars /\ WF_vars(NextFetch)

(* ======================= properties of Spec ============================ *)
\* The last call of the one process: its candidate, the row of its identity
\* before and after, and what it returned.
Returned == ret[1] # None /\ pc[1] = "idle"
LastCand == listing[1]
PreIds == Stored(before.listings, LastCand)
PostIds == Stored(listings, LastCand)
PreRow == before.listings[CHOOSE i \in PreIds : TRUE]
PostRow == listings[CHOOSE i \in PostIds : TRUE]
Outcome == ret[1][1]
EventsAdded == Len(price_alerts) - Len(before.price_alerts)
Merged == Returned /\ PreIds # {} /\ PostIds # {}

\* C2: for a merge of a candidate whose identity is stored, a price change is
\* detected (price_changed is True and a price_alerts row is appended) if and
\* only if the stored and the candidate price are both non-null and unequal,
\* 0 included.
C2_DetectedIffNonNullUnequal ==
    Merged =>
        ((Outcome[2] /\ EventsAdded = 1)
            <=> (/\ PreRow.price # None
                 /\ LastCand.price # None
                 /\ PreRow.price # LastCand.price))

\* C3: the call returns ('inserted', False) exactly when the identity was not
\* stored before it, ('updated', True) exactly when it was stored and the call
\* recorded a price change, and ('unchanged', False) in every other case.
C3_OutcomeClassified ==
    ret[1] # None =>
        /\ pc[1] = "idle"
        /\ Outcome \in {<<"inserted", FALSE>>, <<"updated", TRUE>>,
                        <<"unchanged", FALSE>>}
        /\ (Outcome = <<"inserted", FALSE>>) <=> (PreIds = {})
        /\ (Outcome = <<"updated", TRUE>>) <=> (PreIds # {} /\ EventsAdded = 1)
        /\ (Outcome = <<"unchanged", FALSE>>) <=> (PreIds # {} /\ EventsAdded = 0)

C3_Witness ==
    /\ Returned
    /\ Outcome = <<"updated", TRUE>>
    /\ PreIds # {}
    /\ PreRow.price # LastCand.price

\* C4: a merge that detects a change from p to q appends one entry with price
\* p to the tail of the listing's price_history, sets its price to q and
\* appends one price_alerts row (id, p, q); a merge that detects none appends
\* nothing to price_history or to price_alerts.
C4_HistoryAndEvent ==
    Returned =>
        IF Outcome[2]
        THEN /\ Merged
             /\ Len(PostRow.price_history) = Len(PreRow.price_history) + 1
             /\ SubSeq(PostRow.price_history, 1, Len(PreRow.price_history))
                    = PreRow.price_history
             /\ PostRow.price_history[Len(PostRow.price_history)].price = PreRow.price
             /\ PostRow.price = LastCand.price
             /\ Len(price_alerts) = Len(before.price_alerts) + 1
             /\ SubSeq(price_alerts, 1, Len(before.price_alerts)) = before.price_alerts
             /\ LET a == price_alerts[Len(price_alerts)] IN
                /\ a.listing_id \in PreIds
                /\ a.old_price = PreRow.price
                /\ a.new_price = LastCand.price
        ELSE /\ price_alerts = before.price_alerts
             /\ PostIds # {}
             /\ PostRow.price_history = (IF PreIds = {} THEN <<>> ELSE PreRow.price_history)

C4_Witness ==
    /\ Returned
    /\ Outcome[2]
    /\ PreRow.price = Some(2)
    /\ LastCand.price = Some(1)
    /\ Len(PostRow.price_history) = 2

\* C5: once the stored trim or price is non-null, a merge whose candidate has
\* that field null leaves it as it is; an update changes the field only to
\* the candidate's non-null value.  (trim stands for the eight columns written
\* as COALESCE(?, column).)
C5_NullPreserving ==
    Merged =>
        /\ (PreRow.trim # None /\ LastCand.trim = None) => PostRow.trim = PreRow.trim
        /\ (PreRow.price # None /\ LastCand.price = None) => PostRow.price = PreRow.price
        /\ PostRow.trim # PreRow.trim =>
               (LastCand.trim # None /\ PostRow.trim = LastCand.trim)
        /\ PostRow.price # PreRow.price =>
               (LastCand.price # None /\ PostRow.price = LastCand.price)

C5_Witness ==
    /\ Merged
    /\ PreRow.trim = Some(SR5)
    /\ PreRow.price = Some(1)
    /\ LastCand.trim = None
    /\ LastCand.price = None
    /\ PostRow.trim = Some(SR5)

\* C6: when the stored price is null and the candidate's price is not, the
\* stored price becomes the candidate's price, the outcome is ('unchanged',
\* False) and price_history stays as it was.
C6_NullPriceFilledIn ==
    (Merged /\ PreRow.price = None /\ LastCand.price # None) =>
        /\ PostRow.price = LastCand.price
        /\ Outcome = <<"unchanged", FALSE>>
        /\ PostRow.price_history = PreRow.price_history

\* C10: the same candidate merged n >= 2 times in a row, beginning with a store
\* that did not hold its identity, returns ('inserted', False) the first time
\* and ('unchanged', False) every later time, and never raises.
C10_RepeatedCandidate ==
    /\ run.len = 1 => (pc[1] = "idle" /\ ret[1] = Some(<<"inserted", FALSE>>))
    /\ run.len >= 2 => (pc[1] = "idle" /\ ret[1] = Some(<<"unchanged", FALSE>>))

C10_Witness ==
    /\ run.len >= 3
    /\ run.cand.price = Some(2)

\* C11: after the same candidate is merged twice in a row, the tables after
\* the second merge are the tables after the first, the listings row included,
\* and price_alerts is the same.
C11_SecondMergeSameState ==
    (Returned /\ run.same) => Committed = before

\* C11, amended: after the same candidate is merged twice in a row, the tables
\* after the second merge are the tables after the first except that the
\* listing's last_seen is the time of the second merge; price_alerts is the
\* same.
C11_SameStateButLastSeen ==
    (Returned /\ run.same) =>
        /\ Merged
        /\ price_alerts = before.price_alerts
        /\ listings = [before.listings EXCEPT
                          ![CHOOSE i \in PreIds : TRUE].last_seen = isoformat(now[1])]

\* The first of the two merges recorded a price change, and the clock moved
\* on before the second.
C11_Witness ==
    /\ Returned
    /\ run.same
    /\ PreIds # {}
    /\ PreRow.price_history # <<>>
    /\ PreRow.price = LastCand.price
    /\ PreRow.last_seen # isoformat(now[1])
    /\ PostRow.last_seen = isoformat(now[1])

\* The price_alerts rows of ls that refer to the listing with id i.
EventsOf(pa, i) == {k \in 1..Len(pa) : pa[k].listing_id = i}

\* C12: when a batch applies two candidates of one identity, both with a
\* price, to a store that did not hold the identity, the stored price after
\* the second is the second candidate's price, and the listing has exactly one
\* price_alerts row if the two prices differ and none if they are equal.
C12_LastAppliedWins ==
    (Returned /\ run.fresh /\ PreRow.price # None /\ LastCand.price # None) =>
        /\ PostRow.price = LastCand.price
        /\ Cardinality(EventsOf(price_alerts, CHOOSE i \in PostIds : TRUE))
               = (IF PreRow.price # LastCand.price THEN 1 ELSE 0)

\* C13: a merge that finds its identity stored leaves the row's id, source,
\* listing_id and first_seen as the inserting merge set them, for every row of
\* the table; an inserting merge gives its row the next id, larger than every
\* id in use, and first_seen = now.
C13_IdAndFirstSeenKept ==
    /\ \A i \in 1..Len(before.listings) :
          /\ i <= Len(listings)
          /\ listings[i].source = before.listings[i].source
          /\ listings[i].listing_id = before.listings[i].listing_id
          /\ listings[i].first_seen = before.listings[i].first_seen
    /\ Merged => (PostIds = PreIds /\ Len(listings) = Len(before.listings))
    /\ (Returned /\ PreIds = {}) =>
          /\ PostIds = {Len(before.listings) + 1}
          /\ PostRow.first_seen = isoformat(now[1])

\* The second listing's price changes at a later reading of the clock than
\* its insertion.
C13_Witness ==
    /\ Merged
    /\ Outcome[2]
    /\ PostIds = {2}
    /\ PostRow.first_seen # isoformat(now[1])
    /\ PostRow.first_seen = PreRow.first_seen

\* C14: a merge that returns, whatever its outcome, leaves its listing with
\* last_seen = now; an inserting merge leaves first_seen = last_seen; and
\* no row has last_seen before first_seen.
C14_LastSeenIsMergeTime ==
    /\ Returned => (PostIds # {} /\ PostRow.last_seen = isoformat(now[1]))
    /\ (Returned /\ PreIds = {}) => PostRow.first_seen = PostRow.last_seen
    /\ \A i \in 1..Len(listings) :
          TextLeq(listings[i].first_seen, listings[i].last_seen)

\* A merge without a price change moves last_seen past first_seen.
C14_Witness ==
    /\ Merged
    /\ Outcome = <<"unchanged", FALSE>>
    /\ PreRow.last_seen = PreRow.first_seen
    /\ PostRow.last_seen # PreRow.last_seen
    /\ PostRow.last_seen = isoformat(now[1])

\* C15: no merge deletes a listings row or a price_alerts row or changes a
\* price_alerts row: the tables after a merge hold at least the rows they
\* held before it, and price_alerts is what it was plus rows appended.
C15_StoreOnlyGrows ==
    /\ Len(listings) >= Len(before.listings)
    /\ Len(price_alerts) >= Len(before.price_alerts)
    /\ SubSeq(price_alerts, 1, Len(before.price_alerts)) = before.price_alerts

\* A second price change of a listing is recorded after its first.
C15_Witness ==
    /\ Returned
    /\ Outcome[2]
    /\ Len(before.price_alerts) = 1
    /\ Len(price_alerts) = 2
    /\ price_alerts[1].listing_id = price_alerts[2].listing_id

\* C16: the price_alerts row a merge appends carries, as change_date, the
\* timestamp `now` of the price_history entry the same merge appends.
C16_EventCarriesNow ==
    (Merged /\ Outcome[2]) =>
        price_alerts[Len(price_alerts)].change_date
            = PostRow.price_history[Len(PostRow.price_history)].date

(* ====================== properties of SpecQuery ======================== *)
\* The clock reading a timestamp text was formatted from.
Instant(text) == text[1] * TicksPerDay + text[3]

\* C17: get_price_drops(days), days >= 1, returns exactly the price_alerts
\* rows created at or after now - days, newest first.
C17_WindowExact ==
    (out.call = "get_price_drops" /\ out.days >= 1) =>
        LET from == out.now - out.days * TicksPerDay
            want == {k \in 1..Len(price_alerts) :
                        Instant(price_alerts[k].change_date) >= from}
        IN  /\ Len(out.rows) = Cardinality(want)
            /\ {out.rows[i].id : i \in DOMAIN out.rows} = want
            /\ \A i, j \in DOMAIN out.rows :
                  i < j => Instant(out.rows[i].change_date)
                              >= Instant(out.rows[j].change_date)

\* C18: every row get_price_drops returns carries the make and trim its
\* listing holds when the query runs, and the listing_id, old_price and
\* new_price of its price_alerts row as recorded.  (make and trim stand for
\* the six joined columns.)
C18_FieldsAtQueryTime ==
    out.call = "get_price_drops" =>
        \A i \in DOMAIN out.rows :
            LET r == out.rows[i] IN
            /\ r.id \in 1..Len(price_alerts)
            /\ r.listing_id = price_alerts[r.id].listing_id
            /\ r.old_price = price_alerts[r.id].old_price
            /\ r.new_price = price_alerts[r.id].new_price
            /\ r.make = listings[r.listing_id].make
            /\ r.trim = listings[r.listing_id].trim

\* The last merge of the batch gave the listing a trim it did not have when
\* its price change was recorded; the query returns the event with that trim.
C18_Witness ==
    /\ out.call = "get_price_drops"
    /\ Merged
    /\ Outcome = <<"unchanged", FALSE>>
    /\ PreRow.trim = None
    /\ LastCand.trim = Some(SR5)
    /\ before.price_alerts = price_alerts
    /\ \E i \in DOMAIN out.rows :
          /\ out.rows[i].listing_id \in PostIds
          /\ out.rows[i].trim = Some(SR5)
          /\ out.rows[i].old_price = Some(1)
          /\ out.rows[i].new_price = Some(2)

\* C19: get_listings(make) returns the stored listings of that make in
\* ascending order of price, every listing without a price after all the
\* listings with one.
C19_AscendingNullsLast ==
    out.call = "get_listings" =>
        /\ {out.rows[i].id : i \in DOMAIN out.rows}
              = {i \in 1..Len(listings) :
                    out.make # None => Lower(listings[i].make[1]) = Lower(out.make[1])}
        /\ \A i, j \in DOMAIN out.rows :
              i < j =>
                  /\ out.rows[i].price = None => out.rows[j].price = None
                  /\ (out.rows[i].price # None /\ out.rows[j].price # None) =>
                         out.rows[i].price[1] <= out.rows[j].price[1]

(* ====================== properties of SpecFilter ======================= *)
\* The options of f other than those in S are off.
OnlySet(f, S) == \A o \in (DOMAIN FILTERS) \ S : f[o] = FILTERS[o]

\* C20: with no option but price_min and price_max set, apply_filters keeps a
\* listing with a price exactly when the price is at least price_min and at
\* most price_max, a bound that is None not applying, and keeps every listing
\* without a price.
C20_PriceBounds ==
    (out.call = "apply_filters" /\ OnlySet(out.filters, {"price_min", "price_max"})) =>
        out.rows = SelectSeq(out.listings,
                      LAMBDA l :
                          \/ l.price = None
                          \/ /\ (out.filters.price_min # None =>
                                    out.filters.price_min[1] <= l.price[1])
                             /\ (out.filters.price_max # None =>
                                    l.price[1] <= out.filters.price_max[1]))

(* ===================== properties of SpecConc ========================== *)
\* C1: the committed listings table never holds two rows with the same
\* (source, listing_id), however the calls interleave: a row is created only
\* for an identity the table does not hold, and from then on the row with
\* that surrogate id keeps that identity.
C1_UniqueIdentity ==
    /\ [](\A i, j \in 1..Len(listings) :
            (listings[i].source = listings[j].source
                /\ listings[i].listing_id = listings[j].listing_id) => i = j)
    /\ [][/\ Len(listings') >= Len(listings)
          /\ \A i \in 1..Len(listings) :
                /\ listings'[i].source = listings[i].source
                /\ listings'[i].listing_id = listings[i].listing_id
          /\ \A i \in (Len(listings) + 1)..Len(listings') :
                Stored(listings, listings'[i]) = {}]_vars

\* Two calls saw the identity absent; one inserted it, the other's INSERT was
\* refused, and a third observation updated the one row.
C1_Witness ==
    /\ pc[2] = "IntegrityError"
    /\ pc[1] = "idle"
    /\ ret[1] = Some(<<"unchanged", FALSE>>)
    /\ listing[1] = listing[2]
    /\ Len(listings) = 1

HistoryPrices(row) ==
    {row.price_history[k].price : k \in 1..Len(row.price_history)}

\* C7: the committed tables are what get_listings and get_price_drops read.
\* Every step that makes a price_alerts row (p, q) visible also leaves its
\* listing with price q and a history entry for p, and every step that changes
\* a listing's price or price_history makes a price_alerts row for the new
\* price visible.
C7_VisibleTogether ==
    [][/\ \A k \in (Len(price_alerts) + 1)..Len(price_alerts') :
             LET a == price_alerts'[k] IN
             /\ a.listing_id \in 1..Len(listings')
             /\ listings'[a.listing_id].price = a.new_price
             /\ a.old_price \in HistoryPrices(listings'[a.listing_id])
       /\ \A i \in 1..Len(listings) :
             (\/ listings'[i].price # listings[i].price
              \/ listings'[i].price_history # listings[i].price_history) =>
                 \E k \in (Len(price_alerts) + 1)..Len(price_alerts') :
                     /\ price_alerts'[k].listing_id = i
                     /\ price_alerts'[k].new_price = listings'[i].price]_vars

\* A reader runs while a transaction holds an event and a listing update that
\* are not committed yet.
C7_Witness ==
    \E p \in procs :
        /\ pc[p] = "written"
        /\ Len(txn[p].price_alerts) = Len(price_alerts) + 1
        /\ txn[p].listings # listings

Quiescent == \A p \in procs : ~InFlight(p)

Perms(n) == {f \in [1..n -> 1..n] : \A i, j \in 1..n : f[i] = f[j] => i = j}

RECURSIVE Replay(_, _, _, _)
\* The tables after the calls cs[f[k]], cs[f[k+1]], ... run one after the other.
Replay(db, cs, f, k) ==
    IF k > Len(cs) THEN db
    ELSE Replay(UpsertListing(db, cs[f[k]].c, cs[f[k]].t).db, cs, f, k + 1)

SerialOutcomes(db, cs) == {Replay(db, cs, f, 1) : f \in Perms(Len(cs))}

\* C8: when calls on one identity have overlapped and all have returned, the
\* committed tables are those of running the same calls in some serial order.
C8_Serialized ==
    (/\ Quiescent
     /\ Len(batch) >= 2
     /\ \A k \in 1..Len(batch) : Identity(batch[k].c) = Identity(batch[1].c))
        => Committed \in SerialOutcomes(base, batch)

\* C9: a writer that lost a race on its identity neither fails with an error
\* nor writes from the row it read before the winner committed.
C9_LoserRetries ==
    \A p \in procs :
        /\ pc[p] # "IntegrityError"
        /\ pc[p] \in {"alerted", "written"} =>
               existing[p] = SelectExisting(listings, listing[p])

\* A listing's trim text, '' for a listing without one.
TrimText(l) == IF Get(l, "trim") = None THEN <<>> ELSE Get(l, "trim")[1]

\* Some entry of the list is a case-insensitive substring of the text.
MatchesAny(text, list) ==
    \E k \in DOMAIN list : Contains(lower(text), lower(list[k]))

C22_DiscountNeedsMsrp ==
    (out.call = "apply_filters" /\ out.filters.min_discount_percent # None) =>
        \A i \in DOMAIN out.rows :
            LET l == out.rows[i] IN
            /\ Get(l, "msrp") # None
            /\ Get(l, "price") # None
            /\ (Get(l, "msrp")[1] - Get(l, "price")[1]) * 100
                  >= out.filters.min_discount_percent[1] * Get(l, "msrp")[1]

\* The FilterSpec with no option set but o, which is set as f sets it.
Only(f, o) == [FILTERS EXCEPT ![o] = f[o]]

\* The options f sets.
OptionsSet(f) == {o \in DOMAIN FILTERS : f[o] # FILTERS[o]}

RECURSIVE PermsOf(_)
\* The sequences that list every element of S once.
PermsOf(S) ==
    IF S = {} THEN {<<>>}
    ELSE UNION {{<<x>> \o q : q \in PermsOf(S \ {x})} : x \in S}

RECURSIVE OneAtATime(_, _, _)
\* apply_filters with the options of f one at a time, in the given order.
OneAtATime(ls, f, order) ==
    IF order = <<>> THEN ls
    ELSE OneAtATime(apply_filters(ls, Only(f, Head(order))), f, Tail(order))

\* C23: the result of apply_filters is the input listings that each option
\* of the FilterSpec, taken alone, keeps (only_price_drops keeping those with
\* a non-empty price_history), in their order; applying the options that are
\* set one at a time, in any order, gives that same result.
C23_ConjunctionOfOptions ==
    out.call = "apply_filters" =>
        /\ out.rows = SelectSeq(out.listings,
                          LAMBDA l : \A o \in DOMAIN FILTERS :
                                        apply_filters(<<l>>, Only(out.filters, o)) = <<l>>)
        /\ out.filters.only_price_drops =>
              \A i \in DOMAIN out.rows : Get(out.rows[i], "price_history") # <<>>
        /\ \A order \in PermsOf(OptionsSet(out.filters)) :
              OneAtATime(out.listings, out.filters, order) = out.rows

\* Four options are set; the listing passes the bounds and the include list
\* and is dropped for its empty price_history.
C23_Witness ==
    /\ out.call = "apply_filters"
    /\ Cardinality(OptionsSet(out.filters)) = 4
    /\ out.filters.only_price_drops
    /\ Len(out.listings) = 1
    /\ out.rows = <<>>
    /\ apply_filters(out.listings, [out.filters EXCEPT !.only_price_drops = FALSE])
          = out.listings
    /\ Get(out.listings[1], "trim") # None

(* ----------------------------- C24, C26 -------------------------------- *)
Malformed(c) == c.listing_id = "" \/ c.make = None

\* C24: a candidate with an empty listing_id or a null make is rejected by
\* the merge: the store is as it was before the call, whether or not the
\* identity is stored, and the batch goes on (the process is back in the loop
\* of run_full_scrape, not stopped by an exception).
C24_MalformedRejected ==
    (calls > 0 /\ Malformed(LastCand)) =>
        /\ Committed = before
        /\ pc[1] = "idle"

\* C26: when a candidate for a stored identity is merged, the stored make is
\* the candidate's make if that is not null, and the make stored before
\* otherwise.
C26_LastKnownMake ==
    Merged => PostRow.make = Coalesce(LastCand.make, PreRow.make)

(* -------------------------------- C25 ---------------------------------- *)
\* A call has returned that merged the candidate of the last failed call
\* into the store that failed call began with.
RetryDone ==
    /\ pc[1] = "idle"
    /\ batch # <<>>
    /\ run.cand # NoCall
    /\ run.len = 0
    /\ LastCand = run.cand
    /\ base = before

\* C25: when the store fails after the lookup, after the event insert or at
\* commit, the caller has the exception and the committed tables are those
\* the merge began with, with no transaction left open; and merging the same
\* candidate again gives the tables a merge of it into that store gives when
\* nothing fails.
C25_FailureLeavesStore ==
    /\ pc[1] = "OperationalError" =>
          /\ Committed = base
          /\ txn[1] = Empty
          /\ lock = 0
    /\ RetryDone => Committed = UpsertListing(before, run.cand, now[1]).db

\* The merge that failed is repeated and records a price change.
C25_Witness ==
    /\ RetryDone
    /\ ret[1] = Some(<<"updated", TRUE>>)
    /\ Len(price_alerts) = Len(before.price_alerts) + 1

(* -------------------------------- C27 ---------------------------------- *)
\* The events that reference listing i, oldest first, without the reference.
EventsFor(db, i) ==
    LET es == SelectSeq(db.price_alerts, LAMBDA a : a.listing_id = i) IN
    [k \in 1..Len(es) |->
        [old_price |-> es[k].old_price, new_price |-> es[k].new_price,
         change_date |-> es[k].change_date, notified |-> es[k].notified]]

\* The stored listings with their events, whatever ids they were given.
View(db) ==
    {[row |-> db.listings[i], events |-> EventsFor(db, i)] :
        i \in 1..Len(db.listings)}

\* C27: once the calls that ran since the store was last at rest have
\* returned, every listing of an identity none of them merged, and the
\* events that reference it, are as they were; and when the calls were for
\* different identities, the listings and their events are those of running
\* the calls one after the other in any order, whatever way they interleaved.
C27_Independent ==
    (Quiescent /\ batch # <<>>) =>
        LET ids == {Identity(batch[k].c) : k \in 1..Len(batch)} IN
        /\ \A i \in 1..Len(base.listings) :
              Identity(base.listings[i]) \notin ids =>
                  /\ listings[i] = base.listings[i]
                  /\ EventsFor(Committed, i) = EventsFor(base, i)
        /\ Cardinality(ids) = Len(batch) =>
              \A f \in Perms(Len(batch)) :
                  View(Replay(base, batch, f, 1)) = View(Committed)

\* Two calls for different identities have overlapped: one recorded a price
\* change of a stored listing, the other inserted its listing.
C27_Witness ==
    /\ Quiescent
    /\ Len(batch) = 2
    /\ Identity(batch[1].c) # Identity(batch[2].c)
    /\ Len(price_alerts) = Len(base.price_alerts) + 1
    /\ Len(listings) = Len(base.listings) + 1

(* -------------------------------- C28 ---------------------------------- *)
\* C28: for every stored listing, price_history and the events that
\* reference it have the same length, the i-th history price is the i-th
\* event's old_price, each event's new_price is the next event's old_price,
\* the newest event's new_price is the listing's price, and the newest
\* history price differs from the listing's price.
C28_HistoryMatchesEvents ==
    \A i \in 1..Len(listings) :
        LET h == json_loads(listings[i].price_history)
            es == SelectSeq(price_alerts, LAMBDA a : a.listing_id = i)
            n == Len(h)
        IN  /\ Len(es) = n
            /\ \A k \in 1..n : h[k].price = es[k].old_price
            /\ \A k \in 1..(n - 1) : es[k].new_price = es[k + 1].old_price
            /\ n > 0 =>
                  /\ es[n].new_price = listings[i].price
                  /\ h[n].price # listings[i].price

\* The listing stored second has changed price once.
C28_Witness ==
    /\ Returned
    /\ Len(listings) = 2
    /\ Len(json_loads(listings[2].price_history)) = 1
    /\ Len(price_alerts) = 1

(* ----------------------------- C29, C30 -------------------------------- *)
\* The requests made for page pg.
Requests(pg) == {k \in 1..Len(fetch.log) : fetch.log[k].page = pg}

RECURSIVE Collected(_, _)
\* The listings parsed from the first k requests.
Collected(log, k) ==
    IF k = 0 THEN 0
    ELSE Collected(log, k - 1)
         + (IF log[k].response.kind = "cards" THEN log[k].response.n ELSE 0)

C29_Bounded ==
    /\ \A k \in 1..Len(fetch.log) : fetch.log[k].page \in 1..max_pages
    /\ \A pg \in 1..max_pages : Cardinality(Requests(pg)) <= 3
    /\ \A k \in 1..(Len(fetch.log) - 1) :
          fetch.log[k + 1].page = fetch.log[k].page =>
              /\ fetch.log[k].response.kind = "Timeout"
              /\ fetch.log[k].attempt + 1 < 3
    /\ fetch.pc = "returned" =>
          fetch.all_listings = Collected(fetch.log, Len(fetch.log))

\* C29: a scraper requests each page at most 3 times, requests a page again
\* only after a timeout on an attempt that is not the third, requests only
\* pages 1..max_pages, and a call that has begun returns, with the listings
\* parsed from the pages it fetched.
C29_BoundedRetry ==
    /\ []C29_Bounded
    /\ (fetch.pc # "idle") ~> (fetch.pc = "returned")

\* A call has returned after three attempts on one page, the first two timed
\* out, and another error on another page.
C29_Witness ==
    /\ fetch.pc = "returned"
    /\ fetch.all_listings > 0
    /\ \E pg \in 1..max_pages : Cardinality(Requests(pg)) = 3
    /\ \E k \in 1..Len(fetch.log) : fetch.log[k].response.kind = "RequestException"

\* A request after which, by the claim, the run is over: no cards, no listing
\* parsed, no next-page link at Cars.com, or the last attempt of its page
\* failed.
EndsRun(site, e) ==
    \/ e.response.kind \in {"no cards", "RequestException", "Exception"}
    \/ e.response.kind = "Timeout" /\ e.attempt = max_retries - 1
    \/ e.response.kind = "cards" /\ e.response.n = 0
    \/ e.response.kind = "cards" /\ site = "cars.com" /\ ~e.response.next

\* C30: after a request that ends the run no later page is requested.
C30_StopsAtEndingPage ==
    \A k \in 1..Len(fetch.log) :
        EndsRun(fetch.site, fetch.log[k]) =>
            \A j \in (k + 1)..Len(fetch.log) : fetch.log[j].page <= fetch.log[k].page

====
